---- MODULE Spec2Model ----
(***************************************************************************)
(* Model of the MAX7219 command-line tool (src/src/main.cpp): one process  *)
(* run loads the ini store, sizes the chain, loads every module that has   *)
(* a section, cleans the dirty flags, executes one command and sends the   *)
(* chain to the bus.  Runs follow each other and share only the store on   *)
(* disk.                                                                   *)
(***************************************************************************)
EXTENDS Integers, Sequences, FiniteSets, TLC

\* ------------------------------------------------------------------ bounds
\* Largest module count the ini file configures.
MaxModules == 2
\* Largest number a set command displays.
MaxValue == 1
\* Number of process runs that follow the first one.
MaxRuns == 1

\* ------------------------------------------------------------------- texts
\* A text is a sequence of one-character strings (a few fixed words are kept
\* as one token).
Digits == <<"0", "1", "2", "3", "4", "5", "6", "7", "8", "9">>

IsDigit(c) == \E k \in 1..10 : Digits[k] = c

DigitVal(c) == (CHOOSE k \in 1..10 : Digits[k] = c) - 1

RECURSIVE NatToString(_)
NatToString(n) ==
    IF n < 10 THEN <<Digits[n + 1]>>
    ELSE Append(NatToString(n \div 10), Digits[(n % 10) + 1])

\* std::to_string(int)
to_string(n) == IF n < 0 THEN <<"-">> \o NatToString(-n) ELSE NatToString(n)

RECURSIVE AtoiDigits(_, _)
AtoiDigits(s, acc) ==
    IF s = <<>> \/ ~IsDigit(Head(s)) THEN acc
    ELSE AtoiDigits(Tail(s), acc * 10 + DigitVal(Head(s)))

\* atoi: optional sign, then the leading digits; 0 when there are none.
Atoi(s) ==
    IF s = <<>> THEN 0
    ELSE IF Head(s) = "-" THEN -AtoiDigits(Tail(s), 0)
    ELSE IF Head(s) = "+" THEN AtoiDigits(Tail(s), 0)
    ELSE AtoiDigits(s, 0)

optVerbose == <<"-", "v">>
cmdReset == <<"reset">>
cmdSet == <<"set">>
cmdBrightness == <<"brightness">>
cmdSync == <<"sync">>
cmdClear == <<"clear">>
cmdOn == <<"on">>
cmdOff == <<"off">>

\* Variant: the section named by the zero-based index.
moduleNameOffByOne(num) == <<"display:">> \o to_string(num)

\* "display:" + std::to_string(num+1)
moduleName(num) == <<"display:">> \o to_string(num + 1)

\* ------------------------------------------------------------ the ini store
\* A store is a function from the names of its sections to the sections; a
\* section is a function from the names of its options to their texts.
interfaceSection == <<"interface:spi-0">>

has(sections, name) == name \in DOMAIN sections

hasOption(sections, name, key) ==
    has(sections, name) /\ key \in DOMAIN sections[name]

BoolText(b) == IF b THEN <<"1">> ELSE <<"0">>

\* config[name]: the section, created empty when it does not exist.
Section(sections, name) ==
    IF has(sections, name) THEN sections[name] ELSE [k \in {} |-> <<>>]

PutSection(sections, name, sec) ==
    [n \in DOMAIN sections \cup {name} |->
        IF n = name THEN sec ELSE sections[n]]

\* config.markDirty()
markDirty(cfg) == [cfg EXCEPT !.dirty = TRUE]

\* --------------------------------------------------------------- the chain
MaxBrightness == 15

DefaultModule ==
    [value |-> 0, hasValue |-> FALSE, brightness |-> 8, power |-> TRUE,
     dirty |-> FALSE]

\* std::make_shared<devices::LocalMAX7219>()
NewMAX7219 ==
    [numDevices |-> 0, writeImmediately |-> TRUE,
     modules |-> [k \in {} |-> DefaultModule], busWrites |-> 0]

\* max->numDevices(count): the chain holds count modules, new ones in their
\* default state.
numDevices(dev, count, d) ==
    [dev EXCEPT !.numDevices = count,
                !.modules = [k \in 0..(count - 1) |->
                    IF k \in DOMAIN dev.modules THEN dev.modules[k]
                    ELSE [DefaultModule EXCEPT !.dirty = d]]]

\* max->writeImmediately(flag)
writeImmediately(dev, flag) == [dev EXCEPT !.writeImmediately = flag]

ValidIndex(dev, num) == num >= 0 /\ num < dev.numDevices

\* The mutators' own validation: an index outside the chain is refused
\* (OutOfRange), and so is a brightness outside 0..15 (InvalidArgument).
OutOfRange(dev, num) == ~ValidIndex(dev, num)

InvalidArgument(level) == level < 0 \/ level > MaxBrightness

\* A mutator's result: with immediate write the module goes to the bus at
\* once, otherwise it only keeps its dirty flag.
Mutated(dev, num, m) ==
    IF dev.writeImmediately
    THEN [dev EXCEPT !.modules[num] = [m EXCEPT !.dirty = FALSE],
                     !.busWrites = @ + 1]
    ELSE [dev EXCEPT !.modules[num] = m]

\* max->setNumber(num, value)
setNumber(dev, num, value) ==
    LET m == dev.modules[num]
        same == m.hasValue /\ m.value = value
    IN Mutated(dev, num,
               [m EXCEPT !.value = value, !.hasValue = TRUE,
                         !.dirty = @ \/ ~same])

\* max->clear(num)
clear(dev, num) ==
    LET m == dev.modules[num]
    IN Mutated(dev, num, [m EXCEPT !.hasValue = FALSE, !.dirty = @ \/ m.hasValue])

\* max->setBrightness(num, value)
setBrightness(dev, num, level) ==
    LET m == dev.modules[num]
    IN Mutated(dev, num,
               [m EXCEPT !.brightness = level,
                         !.dirty = @ \/ (m.brightness # level)])

\* power state of one module, as the state loader applies it
setPower(dev, num, on) ==
    LET m == dev.modules[num]
    IN Mutated(dev, num, [m EXCEPT !.power = on, !.dirty = @ \/ (m.power # on)])

\* max->setClean()
setClean(dev) ==
    [dev EXCEPT !.modules = [k \in DOMAIN @ |-> [@[k] EXCEPT !.dirty = FALSE]]]

\* max->setDirty()
setDirty(dev) ==
    [dev EXCEPT !.modules = [k \in DOMAIN @ |-> [@[k] EXCEPT !.dirty = TRUE]]]

\* max->reset(): every module back to its default state, to be sent again.
reset(dev) ==
    [dev EXCEPT !.modules = [k \in DOMAIN @ |-> [DefaultModule EXCEPT !.dirty = TRUE]]]

\* What the bus and the store see of a module: everything but the dirty flag.
Shown(m) ==
    [value |-> m.value, hasValue |-> m.hasValue, brightness |-> m.brightness,
     power |-> m.power]

Frames(dev) == [k \in DOMAIN dev.modules |-> Shown(dev.modules[k])]

\* ------------------------------------------------------ the state synchronizer
\* devices::saveState(config[name], *max, num): the module's value, hasValue,
\* brightness and power written into the section's options.
saveState(sec, dev, num) ==
    LET m == dev.modules[num]
        written == [k \in {"value", "hasValue", "brightness", "power"} |->
                      CASE k = "value" -> to_string(m.value)
                        [] k = "hasValue" -> BoolText(m.hasValue)
                        [] k = "brightness" -> to_string(m.brightness)
                        [] OTHER -> BoolText(m.power)]
    IN [k \in DOMAIN sec \cup DOMAIN written |->
          IF k \in DOMAIN written THEN written[k] ELSE sec[k]]

\* loadState(config[name], *max, i): the options present in the section are
\* applied to the module through the chain's mutators.
loadState(sec, dev, num) ==
    LET d1 == IF "value" \in DOMAIN sec
              THEN setNumber(dev, num, Atoi(sec["value"])) ELSE dev
        d2 == IF "hasValue" \in DOMAIN sec /\ Atoi(sec["hasValue"]) = 0
              THEN clear(d1, num) ELSE d1
        d3 == IF "brightness" \in DOMAIN sec
              THEN setBrightness(d2, num, Atoi(sec["brightness"])) ELSE d2
    IN IF "power" \in DOMAIN sec
       THEN setPower(d3, num, Atoi(sec["power"]) # 0) ELSE d3

\* loadState fails when a mutator refuses what the section holds.
loadThrows(sec, dev, num) ==
    \/ OutOfRange(dev, num)
    \/ "brightness" \in DOMAIN sec /\ InvalidArgument(Atoi(sec["brightness"]))

\* config.save(): the sections go to the file only when the store is dirty.
save(cfg, file) == IF cfg.dirty THEN cfg.sections ELSE file

\* max->sendData(): one bus transaction carrying every module, dirty or not;
\* the dirty flags are cleared once it is out.
sendData(dev) == [setClean(dev) EXCEPT !.busWrites = @ + 1]

\* ------------------------------------------------------------------- state
VARIABLES
    disk,        \* the ini file: the store as it is on disk
    config,      \* util::IniState config: [sections, dirty]
    max,         \* devices::LocalMAX7219 of this run
    argv,        \* argv[1..] of this run, after the -v shift
    pc,          \* where main() is
    i,           \* the load loop's uint8_t counter
    status,      \* exit status of the run, once it has ended
    bus,         \* the frames of the last sendData that went out
    events,      \* the device and store operations of this run, in order; a
                 \* save carries whether it wrote the file
    runs,        \* number of runs before this one
    diskAtStart, \* disk when this run started
    loaded,      \* what startup left in the chain, when the command is dispatched
    lastSaved    \* per module index, the state saveState last wrote for it

vars == <<disk, config, max, argv, pc, i, status, bus, events, runs,
          diskAtStart, loaded, lastSaved>>

Uint8 == 256

ModuleArgs == {to_string(k) : k \in 0..(MaxModules + 1)}
ValueArgs == {to_string(k) : k \in 0..MaxValue}
BrightnessArgs == {to_string(k) : k \in {-1, 0, MaxBrightness, MaxBrightness + 1}}

Commands ==
    {<<>>, <<cmdReset>>, <<cmdSync>>, <<cmdOn>>, <<cmdOff>>, <<cmdSet>>, <<cmdClear>>,
     <<cmdBrightness, <<"1">> >>}
    \cup {<<cmdSet, m, v>> : m \in ModuleArgs, v \in ValueArgs}
    \cup {<<cmdClear, m>> : m \in ModuleArgs}
    \cup {<<cmdBrightness, m, b>> : m \in ModuleArgs, b \in BrightnessArgs}

\* The command lines of a run: a command, with or without a leading -v.
Argvs == Commands \cup {<<optVerbose>> \o c : c \in Commands}

\* A section left by an earlier installation.
PresetSection ==
    saveState([k \in {} |-> <<>>],
              [NewMAX7219 EXCEPT !.modules =
                  (0 :> [DefaultModule EXCEPT !.value = 1, !.hasValue = TRUE,
                                              !.brightness = 3, !.power = FALSE])],
              0)

\* The same section after an edit that left a brightness no module takes.
EditedSection == [PresetSection EXCEPT !["brightness"] = to_string(MaxBrightness + 1)]

\* Module counts typed into the ini file that are no numbers.
MalformedCounts == {<<"x">>, <<"1", "x">>}

\* The ini files the tool starts from: the module count configured, mistyped
\* or left out, the first module's section absent, present, or present and
\* edited.
InitialStores ==
    LET counts == {[k \in {} |-> <<>>]}
                  \cup {[k \in {interfaceSection} |-> [o \in {"modules"} |-> t]] :
                           t \in {to_string(n) : n \in 1..MaxModules} \cup MalformedCounts}
        firsts == {[k \in {} |-> <<>>],
                   [k \in {moduleName(0)} |-> PresetSection],
                   [k \in {moduleName(0)} |-> EditedSection]}
    IN {c @@ f : c \in counts, f \in firsts}

Init ==
    /\ disk \in InitialStores
    /\ config = [sections |-> [k \in {} |-> <<>>], dirty |-> FALSE]
    /\ max = NewMAX7219
    /\ argv = <<>>
    /\ pc = "start"
    /\ i = 0
    /\ status = 0
    /\ bus = <<>>
    /\ events = <<>>
    /\ runs = 0
    /\ diskAtStart = disk
    /\ loaded = <<>>
    /\ lastSaved = [k \in {} |-> DefaultModule]

\* ----------------------------------------------------------------- startup
argc == Len(argv) + 1

Log(ev) == events' = Append(events, ev)

\* main, up to the chain's construction: the -v shift, config.load(), the
\* chain created.
Start ==
    /\ pc = "start"
    /\ \E a \in Argvs :
         argv' = IF Len(a) > 0 /\ a[1] = optVerbose THEN Tail(a) ELSE a
    /\ config' = [sections |-> disk, dirty |-> FALSE]
    /\ max' = NewMAX7219
    /\ diskAtStart' = disk
    /\ events' = <<>>
    /\ loaded' = <<>>
    /\ i' = 0
    /\ status' = 0
    /\ pc' = "size"
    /\ UNCHANGED <<disk, bus, runs, lastSaved>>

\* Variant: the chain is sized after the load loop instead of before it.
SizeChainLate ==
    \/ /\ pc = "size"
       /\ pc' = "immediate"
       /\ UNCHANGED <<disk, config, max, argv, i, status, bus, events, runs,
                      diskAtStart, loaded, lastSaved>>
    \/ /\ pc = "clean"
       /\ hasOption(config.sections, interfaceSection, "modules")
       /\ \A k \in 1..Len(events) : events[k][1] # "numDevices"
       /\ \E d \in BOOLEAN :
            max' = numDevices(max, Atoi(config.sections[interfaceSection]["modules"]), d)
       /\ Log(<<"numDevices">>)
       /\ UNCHANGED <<disk, config, argv, pc, i, status, bus, runs, diskAtStart,
                      loaded, lastSaved>>

\* The module count of interface:spi-0, when the store has one.
SizeChain ==
    /\ pc = "size"
    /\ IF hasOption(config.sections, interfaceSection, "modules")
       THEN \E d \in BOOLEAN :
              /\ max' = numDevices(max, Atoi(config.sections[interfaceSection]["modules"]), d)
              /\ Log(<<"numDevices">>)
       ELSE UNCHANGED <<max, events>>
    /\ pc' = "immediate"
    /\ UNCHANGED <<disk, config, argv, i, status, bus, runs, diskAtStart, loaded, lastSaved>>

\* Variant: the switch is left as the chain was created.
ImmediateWriteLeftOn(dev) == dev

\* max->writeImmediately(false)
ImmediateWriteOff(dev) == writeImmediately(dev, FALSE)

BatchedWrites ==
    /\ pc = "immediate"
    /\ max' = ImmediateWriteOff(max)
    /\ Log(<<"writeImmediately">>)
    /\ i' = 0
    /\ pc' = "load"
    /\ UNCHANGED <<disk, config, argv, status, bus, runs, diskAtStart, loaded, lastSaved>>

\* Variant: config[name] is read without asking whether it exists.
LoadAlways(cfg, name) == TRUE

\* if (config.has(name))
ShouldLoad(cfg, name) == has(cfg.sections, name)

\* One turn of the load loop: module i is loaded when it has a section.  An
\* exception of loadState is caught nowhere: it ends the process.
LoadStep ==
    /\ pc = "load"
    /\ i < max.numDevices
    /\ LET name == moduleName(i)
       IN IF ShouldLoad(config, name)
          THEN /\ config' = [config EXCEPT
                               !.sections = PutSection(@, name, Section(@, name))]
               /\ IF loadThrows(Section(config.sections, name), max, i)
                  THEN /\ Log(<<"load failed", i>>)
                       /\ pc' = "aborted"
                       /\ status' = 134
                       /\ UNCHANGED <<max, i>>
                  ELSE /\ max' = loadState(Section(config.sections, name), max, i)
                       /\ Log(<<"load", i>>)
                       /\ i' = (i + 1) % Uint8
                       /\ UNCHANGED <<pc, status>>
          ELSE /\ i' = (i + 1) % Uint8
               /\ UNCHANGED <<config, max, events, pc, status>>
    /\ UNCHANGED <<disk, argv, bus, runs, diskAtStart, loaded, lastSaved>>

LoadDone ==
    /\ pc = "load"
    /\ ~(i < max.numDevices)
    /\ pc' = "clean"
    /\ UNCHANGED <<disk, config, max, argv, i, status, bus, events, runs, diskAtStart,
                   loaded, lastSaved>>

\* max->setClean(), then the command is dispatched.
Clean ==
    /\ pc = "clean"
    /\ max' = setClean(max)
    /\ Log(<<"setClean">>)
    /\ loaded' = Frames(max')
    /\ pc' = "command"
    /\ UNCHANGED <<disk, config, argv, i, status, bus, runs, diskAtStart, lastSaved>>

\* ---------------------------------------------------------------- commands
\* auto num{ atoi(argv[2])-1 }
ModuleNum(text) == Atoi(text) - 1

\* (num < 0) || (static_cast<unsigned>(num) >= max->numDevices())
InvalidModule(num, dev) == (num < 0) \/ (num >= dev.numDevices)

\* (value < 0) || (value > 15)
InvalidBrightness(value) == (value < 0) \/ (value > MaxBrightness)

\* Variant: the message without the return.
WarnOnly ==
    /\ pc' = "send"
    /\ UNCHANGED <<disk, config, max, argv, i, status, bus, events, runs, diskAtStart,
                   loaded, lastSaved>>

\* "Invalid module number" and return -1.
RejectModule ==
    /\ pc' = "exit"
    /\ status' = -1
    /\ UNCHANGED <<disk, config, max, argv, i, bus, events, runs, diskAtStart,
                   loaded, lastSaved>>

\* "Brightness value out of range" and return -1.
RejectBrightness ==
    /\ pc' = "exit"
    /\ status' = -1
    /\ UNCHANGED <<disk, config, max, argv, i, bus, events, runs, diskAtStart,
                   loaded, lastSaved>>

\* What a library call inside a handler's try block may do: return, or
\* throw from the mutator, or throw from saveState.
Throwable == {"none", "mutator", "saveState"}

\* Variant: the exception is swallowed and main goes on.
CaughtAndContinue(dev, cfg, done) ==
    /\ pc' = "send"
    /\ max' = dev
    /\ config' = cfg
    /\ events' = events \o done \o << <<"exception">> >>
    /\ UNCHANGED <<disk, argv, i, status, bus, runs, diskAtStart, loaded, lastSaved>>

\* catch (const std::exception& e): the message and return -1.  dev and cfg
\* are the chain and the store as the try block left them, done the
\* operations it completed.
Caught(dev, cfg, done) ==
    /\ pc' = "exit"
    /\ status' = -1
    /\ max' = dev
    /\ config' = cfg
    /\ events' = events \o done \o << <<"exception">> >>
    /\ UNCHANGED <<disk, argv, i, bus, runs, diskAtStart, loaded, lastSaved>>

\* config[name] as saveState's argument: the section exists in memory from
\* then on.
Touched(cfg, name) ==
    [cfg EXCEPT !.sections = PutSection(@, name, Section(@, name))]

\* Variant: the message is followed by return -1.
UsageAndFail ==
    /\ pc' = "exit"
    /\ status' = -1
    /\ UNCHANGED <<disk, config, max, argv, i, bus, events, runs, diskAtStart, loaded,
                   lastSaved>>

\* The usage and unknown-command messages: main goes on to sendData.
Usage ==
    /\ pc' = "send"
    /\ UNCHANGED <<disk, config, max, argv, i, status, bus, events, runs, diskAtStart,
                   loaded, lastSaved>>

\* Variant: saveState without config.markDirty().
PersistUnmarked(cfg, dev, name, num) ==
    [cfg EXCEPT !.sections = PutSection(@, name, saveState(Section(@, name), dev, num))]

\* devices::saveState(config[name], *max, num); config.markDirty();
Persist(cfg, dev, name, num) ==
    markDirty([cfg EXCEPT !.sections =
        PutSection(@, name, saveState(Section(@, name), dev, num))])

\* Variant: the mutation without the save.
MutateOnly(dev, name, num) ==
    /\ max' = dev
    /\ events' = events \o << <<"mutate", num>> >>
    /\ pc' = "send"
    /\ UNCHANGED <<disk, config, argv, i, status, bus, runs, diskAtStart, loaded, lastSaved>>

\* The tail of a set, clear or brightness handler: the mutated chain, the
\* module's section saved, the store marked dirty and written to the file.
MutateAndSave(dev, name, num) ==
    /\ max' = dev
    /\ LET cfg == Persist(config, dev, name, num)
       IN /\ disk' = save(cfg, disk)
          /\ config' = [cfg EXCEPT !.dirty = FALSE]
    /\ lastSaved' = (num :> Shown(dev.modules[num])) @@ lastSaved
    /\ events' = events \o << <<"mutate", num>>, <<"saveState", name>>,
                              <<"markDirty">>,
                              <<"save", Persist(config, dev, name, num).dirty>> >>
    /\ pc' = "send"
    /\ UNCHANGED <<argv, i, status, bus, runs, diskAtStart, loaded>>

CmdNone ==
    /\ pc = "command"
    /\ ~(argc > 1)
    /\ pc' = "send"
    /\ UNCHANGED <<disk, config, max, argv, i, status, bus, events, runs, diskAtStart,
                   loaded, lastSaved>>

CmdReset ==
    /\ pc = "command"
    /\ argc > 1 /\ argv[1] = cmdReset
    /\ max' = reset(max)
    /\ Log(<<"reset">>)
    /\ pc' = "send"
    /\ UNCHANGED <<disk, config, argv, i, status, bus, runs, diskAtStart, loaded, lastSaved>>

\* Variant: the sync branch calls what the reset branch calls.
SyncAsReset(dev) == reset(dev)

\* max->setDirty() of the sync command
SyncCommand(dev) == setDirty(dev)

CmdSync ==
    /\ pc = "command"
    /\ argc > 1 /\ argv[1] = cmdSync
    /\ max' = SyncCommand(max)
    /\ Log(<<"setDirty">>)
    /\ pc' = "send"
    /\ UNCHANGED <<disk, config, argv, i, status, bus, runs, diskAtStart, loaded, lastSaved>>

\* Variant: the index decremented once more.
SetNumberBelow(dev, num, value) ==
    setNumber(dev, IF num > 0 THEN num - 1 ELSE num, value)

\* max->setNumber(num, value) of the set command
SetCommand(dev, num, value) == setNumber(dev, num, value)

CmdSet ==
    /\ pc = "command"
    /\ argc > 1 /\ argv[1] = cmdSet
    /\ IF argc = 4
       THEN LET num == ModuleNum(argv[2])
                name == moduleName(num)
                value == Atoi(argv[3])
            IN IF InvalidModule(num, max)
               THEN RejectModule
               ELSE \E thrown \in Throwable :
                      IF OutOfRange(max, num) \/ thrown = "mutator"
                      THEN Caught(max, config, <<>>)
                      ELSE IF thrown = "saveState"
                      THEN Caught(SetCommand(max, num, value), Touched(config, name),
                                  << <<"mutate", num>> >>)
                      ELSE MutateAndSave(SetCommand(max, num, value), name, num)
       ELSE Usage

CmdClear ==
    /\ pc = "command"
    /\ argc > 1 /\ argv[1] = cmdClear
    /\ IF argc = 3
       THEN LET num == ModuleNum(argv[2])
                name == moduleName(num)
            IN IF InvalidModule(num, max)
               THEN RejectModule
               ELSE \E thrown \in Throwable :
                      IF OutOfRange(max, num) \/ thrown = "mutator"
                      THEN Caught(max, config, <<>>)
                      ELSE IF thrown = "saveState"
                      THEN Caught(clear(max, num), Touched(config, name),
                                  << <<"mutate", num>> >>)
                      ELSE MutateAndSave(clear(max, num), name, num)
       ELSE Usage

CmdBrightness ==
    /\ pc = "command"
    /\ argc > 1 /\ argv[1] = cmdBrightness
    /\ IF argc = 4
       THEN LET num == ModuleNum(argv[2])
                name == moduleName(num)
                value == Atoi(argv[3])
            IN IF InvalidModule(num, max)
               THEN RejectModule
               ELSE IF InvalidBrightness(value)
               THEN RejectBrightness
               ELSE \E thrown \in Throwable :
                      IF OutOfRange(max, num) \/ InvalidArgument(value)
                         \/ thrown = "mutator"
                      THEN Caught(max, config, <<>>)
                      ELSE IF thrown = "saveState"
                      THEN Caught(setBrightness(max, num, value), Touched(config, name),
                                  << <<"mutate", num>> >>)
                      ELSE MutateAndSave(setBrightness(max, num, value), name, num)
       ELSE Usage

CmdUnknown ==
    /\ pc = "command"
    /\ argc > 1
    /\ argv[1] \notin {cmdReset, cmdSync, cmdSet, cmdClear, cmdBrightness}
    /\ Usage

\* Variant: main ends without sending.
SendDataSkipped ==
    /\ pc = "send"
    /\ status' = 0
    /\ pc' = "done"
    /\ UNCHANGED <<disk, config, max, argv, i, bus, events, runs, diskAtStart, loaded,
                   lastSaved>>

\* max->sendData(): the transaction goes out, or the transport fails and the
\* error ends the run.
SendData ==
    /\ pc = "send"
    /\ \E ok \in BOOLEAN :
         IF ok
         THEN /\ max' = sendData(max)
              /\ bus' = Frames(max)
              /\ Log(<<"sendData">>)
              /\ status' = 0
              /\ pc' = "done"
         ELSE /\ Log(<<"sendData failed">>)
              /\ status' = 134
              /\ pc' = "failed"
              /\ UNCHANGED <<max, bus>>
    /\ UNCHANGED <<disk, config, argv, i, runs, diskAtStart, loaded, lastSaved>>

\* The process has ended; the tool is run again on the same ini file.
NextRun ==
    /\ pc \in {"done", "exit", "failed", "aborted"}
    /\ runs < MaxRuns
    /\ runs' = runs + 1
    /\ pc' = "start"
    /\ UNCHANGED <<disk, config, max, argv, i, status, bus, events, diskAtStart,
                   loaded, lastSaved>>

Next ==
    \/ Start
    \/ SizeChain
    \/ BatchedWrites
    \/ LoadStep
    \/ LoadDone
    \/ Clean
    \/ CmdNone
    \/ CmdReset
    \/ CmdSync
    \/ CmdSet
    \/ CmdClear
    \/ CmdBrightness
    \/ CmdUnknown
    \/ SendData
    \/ NextRun

Spec == Init /\ [][Next]_vars

\* One run of the tool on an ini file that configures as many modules as
\* the load loop's counter can count, or one more.
WideCounts == {Uint8 - 1, Uint8}

\* The ini file holds the module count and no module's section yet.
WideStores ==
    {[k \in {interfaceSection} |-> [o \in {"modules"} |-> to_string(n)]] :
        n \in WideCounts}

InitWide ==
    /\ disk \in WideStores
    /\ config = [sections |-> [k \in {} |-> <<>>], dirty |-> FALSE]
    /\ max = NewMAX7219
    /\ argv = <<>>
    /\ pc = "start"
    /\ i = 0
    /\ status = 0
    /\ bus = <<>>
    /\ events = <<>>
    /\ runs = 0
    /\ diskAtStart = disk
    /\ loaded = <<>>
    /\ lastSaved = [k \in {} |-> DefaultModule]

NextWide ==
    \/ Start
    \/ SizeChain
    \/ BatchedWrites
    \/ LoadStep
    \/ LoadDone
    \/ Clean
    \/ CmdNone
    \/ CmdReset
    \/ CmdSync
    \/ CmdSet
    \/ CmdClear
    \/ CmdBrightness
    \/ CmdUnknown
    \/ SendData

SpecWide == InitWide /\ [][NextWide]_vars

\* ------------------------------------------------------------------ claims
\* The run's command, read from its command line.
IsSet == argc = 4 /\ argv[1] = cmdSet
IsClear == argc = 3 /\ argv[1] = cmdClear
IsBrightness == argc = 4 /\ argv[1] = cmdBrightness
IsModuleCommand == IsSet \/ IsClear \/ IsBrightness

\* The module number given on the command line is one of the chain's.
ModuleInRange == Atoi(argv[2]) \in 1..max.numDevices
LevelInRange == Atoi(argv[3]) \in 0..MaxBrightness

\* The run executes a set, clear or brightness command on a valid module.
Mutating ==
    /\ IsModuleCommand
    /\ ModuleInRange
    /\ IsBrightness => LevelInRange

AfterCommand == pc \in {"send", "done", "failed", "exit"}

Occurs(kind) == \E k \in 1..Len(events) : events[k][1] = kind
Count(kind) == Cardinality({k \in 1..Len(events) : events[k][1] = kind})
First(kind) == CHOOSE k \in 1..Len(events) :
                  /\ events[k][1] = kind
                  /\ \A j \in 1..(k - 1) : events[j][1] # kind
Last(kind) == CHOOSE k \in 1..Len(events) :
                  /\ events[k][1] = kind
                  /\ \A j \in (k + 1)..Len(events) : events[j][1] # kind

\* What a fresh run loads for module k from the store file.
Reloaded(file, k) ==
    IF has(file, moduleName(k))
    THEN Shown(loadState(file[moduleName(k)],
                         writeImmediately(numDevices(NewMAX7219, k + 1, FALSE), FALSE),
                         k).modules[k])
    ELSE Shown(DefaultModule)

C2_FailedFlushKeepsStore == pc = "failed" => disk = diskAtStart

\* C3: at the end of a run that completes normally, what the store holds
\* for every module is the state that was flushed to the bus, so the next
\* run loads what the display was last given.
C3_StoreMatchesBus ==
    pc = "done" => \A k \in 0..(max.numDevices - 1) : Reloaded(disk, k) = bus[k]

\* The zero-based index the command line names, and the section it names.
Target == Atoi(argv[2]) - 1
TargetSection == <<"display:">> \o argv[2]

Clean_(dev) == \A k \in DOMAIN dev.modules : ~dev.modules[k].dirty

Loads(k) == \E e \in 1..Len(events) : events[e][1] = "load" /\ events[e][2] = k

\* C4: a set, clear or brightness command whose module number is outside
\* 1..numDevices ends the run with status -1; no mutator is called, every
\* module keeps its value, hasValue, brightness, power and dirty flag, no
\* section is created or written, and no module is touched in its place.
C4_InvalidModuleRejected ==
    (AfterCommand /\ IsModuleCommand /\ ~ModuleInRange) =>
        /\ pc = "exit" /\ status = -1
        /\ ~Occurs("mutate") /\ ~Occurs("saveState") /\ ~Occurs("save")
        /\ Frames(max) = loaded /\ Clean_(max)
        /\ max.busWrites = 0
        /\ config.sections = diskAtStart /\ ~config.dirty
        /\ disk = diskAtStart

C4_Witness ==
    /\ pc = "exit" /\ IsSet
    /\ max.numDevices >= 1
    /\ Target = max.numDevices

\* C5: a brightness command on a valid module with a level outside 0..15
\* ends the run with status -1 before any mutation: the module's runtime
\* and persisted brightness are unchanged; and in every state every
\* module's brightness is within 0..15.
C5_BrightnessInRange ==
    /\ \A k \in DOMAIN max.modules : max.modules[k].brightness \in 0..MaxBrightness
    /\ (AfterCommand /\ IsBrightness /\ ModuleInRange /\ ~LevelInRange) =>
          /\ pc = "exit" /\ status = -1
          /\ ~Occurs("mutate")
          /\ max.modules[Target].brightness = loaded[Target].brightness
          /\ Reloaded(disk, Target).brightness = Reloaded(diskAtStart, Target).brightness
          /\ disk = diskAtStart

C5_Witness ==
    /\ pc = "exit" /\ IsBrightness /\ ModuleInRange
    /\ Atoi(argv[3]) = MaxBrightness + 1
    /\ has(diskAtStart, moduleName(Target))

\* C6: what a run loads for a module is the runtime state the module had at
\* the end of the most recent run that saved it; a set leaves the number
\* with hasValue true to be loaded, a clear leaves hasValue false.
C6_RoundTrip ==
    /\ pc = "command" =>
          \A k \in DOMAIN lastSaved :
              k \in DOMAIN max.modules /\ Shown(max.modules[k]) = lastSaved[k]
    /\ (pc \in {"send", "done", "failed"} /\ Mutating) =>
          /\ Target \in DOMAIN lastSaved
          /\ lastSaved[Target] = Shown(max.modules[Target])
          /\ IsSet => lastSaved[Target].hasValue /\ lastSaved[Target].value = Atoi(argv[3])
          /\ IsClear => ~lastSaved[Target].hasValue
          /\ IsBrightness => lastSaved[Target].brightness = Atoi(argv[3])

C6_Witness ==
    /\ pc = "command" /\ runs >= 1
    /\ 0 \in DOMAIN lastSaved
    /\ ~lastSaved[0].hasValue /\ lastSaved[0].value = 1 /\ ~lastSaved[0].power
    /\ ~max.modules[0].hasValue

\* C7: immediate write is switched off before the first load, setClean is
\* called exactly once, after the last load and before the command; when
\* the command is dispatched nothing has gone to the bus and no module is
\* dirty.
C7_CleanStartup ==
    /\ pc \in {"load", "clean"} =>
          /\ Count("writeImmediately") = 1 /\ ~max.writeImmediately
          /\ Occurs("load") => First("writeImmediately") < First("load")
          /\ ~Occurs("setClean")
          /\ max.busWrites = 0
    /\ pc = "command" =>
          /\ Count("writeImmediately") = 1 /\ ~max.writeImmediately
          /\ Occurs("load") => First("writeImmediately") < First("load")
          /\ Occurs("load") => Last("load") < First("setClean")
          /\ events[Len(events)][1] = "setClean"
          /\ max.busWrites = 0
          /\ Clean_(max)
    /\ (pc = "command" \/ AfterCommand) => Count("setClean") = 1

C7_Witness ==
    /\ pc = "command"
    /\ Loads(0)
    /\ loaded[0] # Shown(DefaultModule)

\* C8: a successful set, clear or brightness on module number m writes the
\* section "display:m" and leaves every other section as it was; section
\* names are 1-based and distinct per module, and startup loads module i
\* from the section the commands save it to.
C8_OnlyOwnSection ==
    /\ \A a, b \in 0..MaxModules : moduleName(a) = moduleName(b) => a = b
    /\ (pc \in {"send", "done", "failed"} /\ Mutating) =>
          /\ DOMAIN disk = DOMAIN diskAtStart \cup {TargetSection}
          /\ \A n \in DOMAIN diskAtStart \ {TargetSection} : disk[n] = diskAtStart[n]
          /\ disk[TargetSection] =
                saveState(Section(diskAtStart, TargetSection), max, Target)
    /\ (pc = "command" \/ AfterCommand) =>
          \A k \in DOMAIN max.modules :
              Loads(k) <=> has(diskAtStart, <<"display:">> \o to_string(k + 1))

C8_Witness ==
    /\ pc = "done" /\ IsClear /\ Mutating
    /\ Target = 1
    /\ has(diskAtStart, moduleName(0))
    /\ ~has(diskAtStart, moduleName(1))

\* C9: a run set m v on a chain of N modules ends with one flush of all N
\* modules, in which module m-1 carries v with hasValue true and every
\* other module carries what startup loaded for it: its persisted state, or
\* the defaults when it has no section.
C9_SetFlushesWholeChain ==
    (pc = "done" /\ IsSet /\ ModuleInRange) =>
        /\ max.busWrites = 1 /\ Count("sendData") = 1
        /\ DOMAIN bus = 0..(max.numDevices - 1)
        /\ bus[Target].hasValue /\ bus[Target].value = Atoi(argv[3])
        /\ bus[Target].brightness = Reloaded(diskAtStart, Target).brightness
        /\ bus[Target].power = Reloaded(diskAtStart, Target).power
        /\ \A k \in DOMAIN bus \ {Target} : bus[k] = Reloaded(diskAtStart, k)

C9_Witness ==
    /\ pc = "done" /\ IsSet
    /\ max.numDevices = 2 /\ Target = 1
    /\ has(diskAtStart, moduleName(0))
    /\ bus[0] # Shown(DefaultModule)

\* C10: a module without a section is not loaded at startup, no error is
\* raised, the section is not created, and the module is in its default
\* state when the command is dispatched.
C10_MissingSectionDefaults ==
    pc = "command" =>
        \A k \in 0..(max.numDevices - 1) :
            ~has(diskAtStart, moduleName(k)) =>
                /\ ~Loads(k)
                /\ ~has(config.sections, moduleName(k))
                /\ ~has(disk, moduleName(k))
                /\ Shown(max.modules[k]) = Shown(DefaultModule)
                /\ status = 0
                /\ ~Occurs("load failed")

C10_Witness ==
    /\ pc = "command"
    /\ max.numDevices = 2
    /\ Loads(0)
    /\ ~has(diskAtStart, moduleName(1))


\* A text that is a decimal number: an optional sign and only digits.
IsNumber(text) ==
    /\ text # <<>>
    /\ LET body == IF Head(text) \in {"-", "+"} THEN Tail(text) ELSE text
       IN body # <<>> /\ \A k \in 1..Len(body) : IsDigit(body[k])

Ended == pc \in {"done", "exit", "failed", "aborted"}

HasCount == hasOption(config.sections, interfaceSection, "modules")
CountText == config.sections[interfaceSection]["modules"]

\* C11: when the persisted module count (interface:spi-0 / modules) is not
\* a valid number, the run reports an error and sizes the chain with no
\* substituted count.
C11_MalformedCountReported ==
    (pc \notin {"start", "size"} /\ HasCount /\ ~IsNumber(CountText)) =>
        /\ ~Occurs("numDevices")
        /\ max.numDevices = 0
        /\ Ended /\ status # 0


\* The count the ini file configures, as main reads it.
ConfiguredCount == IF HasCount THEN Atoi(CountText) ELSE 0

\* C12: the chain is sized at most once per run, before any module is
\* loaded and before any bus or store write; from the first load on
\* numDevices is the same for the rest of the run.
C12_SizedOnceBeforeLoad ==
    /\ pc = "size" =>
          /\ events = <<>>
          /\ max.busWrites = 0
          /\ disk = diskAtStart
    /\ pc \notin {"start", "size"} =>
          /\ Count("numDevices") <= 1
          /\ Occurs("numDevices") => events[1][1] = "numDevices"
          /\ max.numDevices = ConfiguredCount
          /\ DOMAIN max.modules = 0..(ConfiguredCount - 1)

C12_Witness ==
    /\ pc = "done"
    /\ Occurs("numDevices") /\ Occurs("load") /\ Occurs("save")
    /\ max.numDevices = 2


\* C13: after a successful set, clear or brightness the module's section
\* is saved and the store is marked dirty before config.save, so the save
\* writes the file, also when the command left the module as it was.
C13_SaveAlwaysWrites ==
    (pc \in {"send", "done", "failed"} /\ Mutating) =>
        /\ Count("saveState") = 1 /\ Count("markDirty") = 1 /\ Count("save") = 1
        /\ First("saveState") < First("markDirty")
        /\ First("markDirty") < First("save")
        /\ events[First("save")][2]
        /\ ~config.dirty
        /\ disk = config.sections
        /\ has(disk, TargetSection)

C13_Witness ==
    /\ pc = "send" /\ IsBrightness /\ Mutating
    /\ Frames(max) = loaded /\ Clean_(max)
    /\ disk = diskAtStart
    /\ events[First("save")][2]


IsSync == argc > 1 /\ argv[1] = cmdSync

\* C14: sync marks every module dirty and changes nothing else: value,
\* hasValue, brightness and power are as loaded, the store is neither
\* marked dirty nor saved, and the run then flushes the whole chain.
C14_SyncOnlyMarksDirty ==
    (pc \in {"send", "done", "failed"} /\ IsSync) =>
        /\ Frames(max) = loaded
        /\ max.numDevices = Cardinality(DOMAIN loaded)
        /\ pc \in {"send", "failed"} => \A k \in DOMAIN max.modules : max.modules[k].dirty
        /\ ~Occurs("saveState") /\ ~Occurs("markDirty") /\ ~Occurs("save")
        /\ ~config.dirty
        /\ config.sections = diskAtStart
        /\ disk = diskAtStart
        /\ pc = "send" => max.busWrites = 0
        /\ pc = "done" =>
              /\ max.busWrites = 1 /\ Count("sendData") = 1
              /\ bus = loaded
              /\ Clean_(max)

C14_Witness ==
    /\ pc = "done" /\ IsSync
    /\ max.numDevices = 2
    /\ Loads(0)
    /\ bus[0] # bus[1]


\* C15: for every configured module count, 256 and more included, the
\* load loop visits the indices in increasing order: its 8-bit counter
\* never wraps around to an index it has visited.  (Checked under SpecWide.)
C15_CounterNeverWraps == [][(pc = "load" /\ pc' = "load") => i' > i]_vars


\* C16: a run that does not end with an error status performs exactly one
\* sendData, as its last device operation, after the startup load, setClean
\* and the command; a run that exits with status -1 performs no flush.
C16_OneFlushAtEnd ==
    /\ pc \in {"size", "immediate", "load", "clean", "command", "send"} =>
          max.busWrites = 0 /\ ~Occurs("sendData")
    /\ pc = "done" =>
          /\ status = 0
          /\ Count("sendData") = 1
          /\ events[Len(events)][1] = "sendData"
          /\ First("setClean") < First("sendData")
          /\ max.busWrites = 1
          /\ bus = Frames(max)
    /\ pc = "exit" =>
          /\ status = -1
          /\ ~Occurs("sendData") /\ ~Occurs("sendData failed")
          /\ max.busWrites = 0

C16_Witness ==
    /\ pc = "done" /\ IsClear /\ Mutating
    /\ Loads(0)
    /\ First("load") < First("mutate")
    /\ First("save") < First("sendData")


\* C17: when the mutator or saveState throws during a set, clear or
\* brightness command, the run exits with status -1 without config.save
\* and without sendData, and the store on disk is the one it started with.
C17_ExceptionExits ==
    (pc # "start" /\ Occurs("exception")) =>
        /\ pc = "exit" /\ status = -1
        /\ IsModuleCommand
        /\ ~Occurs("save")
        /\ ~Occurs("sendData") /\ ~Occurs("sendData failed")
        /\ max.busWrites = 0
        /\ ~config.dirty
        /\ disk = diskAtStart

C17_Witness ==
    /\ pc = "exit" /\ IsSet
    /\ Occurs("exception") /\ Occurs("mutate")
    /\ Frames(max) # loaded
    /\ has(config.sections, TargetSection)
    /\ ~has(disk, TargetSection)


\* The command word is none that main handles.
UnknownWord ==
    argc > 1 /\ argv[1] \notin {cmdReset, cmdSync, cmdSet, cmdClear, cmdBrightness}

\* A set, clear or brightness command with the wrong number of arguments.
WrongCount ==
    /\ argc > 1
    /\ \/ argv[1] = cmdSet /\ argc # 4
       \/ argv[1] = cmdClear /\ argc # 3
       \/ argv[1] = cmdBrightness /\ argc # 4

\* C18: a run with an unknown command word (on and off among them) or with
\* a set, clear or brightness command of the wrong argument count calls no
\* mutator and writes no store: the chain is as loaded, the store is not
\* marked and not saved, the file is the one the run started with.  The run
\* does not return -1: it goes on to sendData, which sends the loaded
\* chain, and ends with status 0.
C18_UsageErrorSucceeds ==
    (AfterCommand /\ (UnknownWord \/ WrongCount)) =>
        /\ pc # "exit"
        /\ ~Occurs("mutate") /\ ~Occurs("exception")
        /\ ~Occurs("saveState") /\ ~Occurs("markDirty") /\ ~Occurs("save")
        /\ Frames(max) = loaded
        /\ ~config.dirty
        /\ config.sections = diskAtStart
        /\ disk = diskAtStart
        /\ pc = "done" =>
              /\ status = 0
              /\ Count("sendData") = 1
              /\ bus = loaded

C18_Witness ==
    /\ pc = "done" /\ status = 0
    /\ UnknownWord /\ argv[1] = cmdOff
    /\ Loads(0)
    /\ Occurs("sendData")
    /\ bus = loaded

====
